---- MODULE Spec2Model ----
(***************************************************************************)
(* Model of the streaming column formatter of go.senan.xyz/table           *)
(* (src/table.go): a Writer ingests bytes with Write, buffers the parsed   *)
(* rows, and renders them aligned on Flush.                                *)
(*                                                                         *)
(* Text.  A Go string or []byte is a sequence of symbols.  A symbol is a   *)
(* byte, except for two tokens that stand for a whole multi-byte unit the  *)
(* width measurement treats as one: ESC, one complete ANSI escape sequence *)
(* (matched by ansiEscExpr, zero cells), and WIDE, one double-width        *)
(* grapheme cluster (two cells).                                           *)
(***************************************************************************)
EXTENDS Integers, Sequences, FiniteSets, TLC

TAB == "\t"
NL == "\n"
CR == "\r"
SP == " "
ESC == "e"
WIDE == "w"

\* Lines ingested between two Flush calls.
MaxLines == 3

\* The lines the input stream is made of (the bytes between two newlines).
InputLines ==
  { <<>>,
    <<"a">>,
    <<"a", SP, TAB, WIDE>>,
    <<WIDE, TAB, ESC, "a", CR>> }

\* The (pre, sep, suff) triples SetFormat is called with.
Formats ==
  { <<<<>>, <<>>, <<>>>>,
    <<<<>>, <<SP>>, <<>>>>,
    <<<<">">>, <<"|">>, <<"<">>>> }

Symbols == {"a", WIDE, ESC, SP, TAB, CR, NL}

\* The chunks Write is called with: single bytes, whole lines, and chunks
\* that end one line and begin (or hold) the next.
Chunks ==
  {<<c>> : c \in Symbols}
    \cup {l \o <<NL>> : l \in InputLines}
    \cup {l1 \o <<NL>> \o l2 : l1 \in {<<>>, <<"a">>}, l2 \in InputLines \ {<<>>}}
    \cup {l1 \o <<NL>> \o l2 \o <<NL>> : l1 \in {<<"a">>, <<"a", SP, TAB, WIDE>>}, l2 \in InputLines}

---------------------------------------------------------------------------
(* Library functions the code calls. *)

\* strings.Repeat(" ", n)
Spaces(n) == [i \in 1..n |-> SP]

\* bytes.IndexByte, 1-based; 0 where Go returns -1
IndexByte(s, c) ==
  IF \E i \in 1..Len(s) : s[i] = c
  THEN CHOOSE i \in 1..Len(s) : s[i] = c /\ \A j \in 1..(i - 1) : s[j] # c
  ELSE 0

RECURSIVE Split(_, _)
\* strings.Split(s, c) for a one-byte separator
Split(s, c) ==
  LET i == IndexByte(s, c)
  IN  IF i = 0 THEN <<s>>
      ELSE <<SubSeq(s, 1, i - 1)>> \o Split(SubSeq(s, i + 1, Len(s)), c)

IsSpace(c) == c \in {SP, TAB, NL, CR}

RECURSIVE TrimLeft(_)
TrimLeft(s) ==
  IF Len(s) > 0 /\ IsSpace(s[1]) THEN TrimLeft(Tail(s)) ELSE s

RECURSIVE TrimRight(_)
TrimRight(s) ==
  IF Len(s) > 0 /\ IsSpace(s[Len(s)]) THEN TrimRight(SubSeq(s, 1, Len(s) - 1)) ELSE s

\* strings.TrimSpace
TrimSpace(s) == TrimRight(TrimLeft(s))

\* Display cells of one symbol (uniseg): control bytes take none; an escape
\* sequence left in the text (ESC [ 0 m) shows its three printable bytes.
CellWidth(c) ==
  CASE c = WIDE -> 2
    [] c = ESC -> 3
    [] c \in {TAB, NL, CR} -> 0
    [] OTHER -> 1

RECURSIVE StringWidth(_)
\* uniseg.StringWidth
StringWidth(s) ==
  IF s = <<>> THEN 0 ELSE CellWidth(s[1]) + StringWidth(Tail(s))

\* ansiEscExpr.ReplaceAllString(str, "")
StripAnsi(s) == SelectSeq(s, LAMBDA c : c # ESC)

strWidth_noStrip(str) == StringWidth(str)

strWidth(str) == StringWidth(StripAnsi(str))

---------------------------------------------------------------------------
(* Errors. *)

Nil == [kind |-> "nil"]

RowError(want, got, line) ==
  [kind |-> "RowError", Want |-> want, Got |-> got, Line |-> line]

\* The error the sink returns when it rejects a write.
SinkError == [kind |-> "SinkError"]

---------------------------------------------------------------------------
(* The Writer. *)

VARIABLES
  buf,      \* Writer.buf: bytes after the last newline
  pre,      \* Writer.pre
  sep,      \* Writer.sep
  suff,     \* Writer.suff
  widths,   \* Writer.widths (<<>> is nil)
  rows,     \* Writer.rows
  err,      \* Writer.err
  lineNum,  \* Writer.lineNum
  out,      \* what the last call wrote to Writer.out, one entry per write
  call,     \* the last call and its arguments
  ret,      \* what the last call returned
  hist,     \* history: the lines completed since the last Flush
  prev,     \* history: the Writer as the last Flush found it
  flushRun, \* history: Flush calls in a row (2 stands for 2 or more)
  sawWide,  \* history: a batch flushed before the last call had a 2-cell column
  stream    \* history: the bytes written and not yet part of a flushed batch

vars == <<buf, pre, sep, suff, widths, rows, err, lineNum, out, call, ret,
          hist, prev, flushRun, sawWide, stream>>

\* The one-shot operations FormatLines and FormatReader.
VARIABLES
  input,    \* the lines handed to the operation
  result    \* the last call, and what it left in the slice or returned

oneShotVars == <<input, result>>

\* The scanner-based Reader.
VARIABLES
  rSeparator, \* Reader.Separator
  rWidths,    \* Reader.widths (<<>> is nil)
  rTable,     \* Reader.table
  rErrs,      \* Reader.errs
  rLine,      \* Reader.line
  rEOF,       \* Reader.sc has reached the end of its input
  rOut,       \* what the last call wrote to Reader.out, one entry per write
  rCall,      \* the last call
  rRet,       \* what the last call returned
  rBatch,     \* history: the lines scanned since the last Flush
  rPrev       \* history: the Reader as the last Flush found it

readerVars ==
  <<rSeparator, rWidths, rTable, rErrs, rLine, rEOF, rOut, rCall, rRet, rBatch, rPrev>>

\* The pipe-backed Writer: the caller, the pipe, and the consumer goroutine
\* that runs the Reader above.
VARIABLES
  pwBuf,      \* the bytes of the blocked pipe Write that no Read has taken
  pwClosed,   \* the write end of the pipe is closed
  scBuf,      \* the bytes the consumer's scanner has read and not returned
  callerPc,   \* where the caller is: "idle", or inside "write", "close", "string"
  consumerPc, \* where the consumer is: "scan", "flush", "close", "done"
  done,       \* the channel done is closed
  pRet,       \* what the caller's last call returned
  pWritten    \* history: the bytes of the Writes that were not refused

pipeVars == <<pwBuf, pwClosed, scBuf, callerPc, consumerPc, done, pRet, pWritten>>

\* The Buffer.
VARIABLES
  bWidths,     \* Buffer.formatter.widths (<<>> is nil)
  bTable,      \* Buffer.formatter.table
  bBuffer,     \* Buffer.buffer
  bReadBuffer, \* Buffer.readBuffer (<<>> is nil)
  bReadPos,    \* Buffer.readPos
  bRet,        \* what the last call returned
  bAccepted,   \* history: the rows the formatter accepted, in order
  bDelivered   \* history: the bytes Read has returned, in order

bufferVars ==
  <<bWidths, bTable, bBuffer, bReadBuffer, bReadPos, bRet, bAccepted, bDelivered>>

allVars == <<vars, oneShotVars, readerVars, pipeVars, bufferVars>>

\* The fields Write, addLine, Flush and reset work on.
Self ==
  [buf |-> buf, widths |-> widths, rows |-> rows, err |-> err, lineNum |-> lineNum]

NoPrev == [taken |-> FALSE]

addLine_acceptAll(w, line, n) ==
  LET parts == Split(line, TAB)
      cols == [i \in 1..Len(parts) |-> TrimSpace(parts[i])]
      ws == IF w.widths = <<>> THEN [i \in 1..Len(cols) |-> 0] ELSE w.widths
  IN  [w |-> [w EXCEPT !.widths = [i \in 1..Len(ws) |->
                                     IF i <= Len(cols) /\ strWidth(cols[i]) > ws[i]
                                     THEN strWidth(cols[i]) ELSE ws[i]],
                       !.rows = Append(w.rows, cols)],
       err |-> Nil]

addLine_swapped(w, line, n) ==
  LET parts == Split(line, TAB)
      cols == [i \in 1..Len(parts) |-> TrimSpace(parts[i])]
      ws == IF w.widths = <<>> THEN [i \in 1..Len(cols) |-> 0] ELSE w.widths
  IN  IF Len(cols) # Len(ws)
      THEN [w |-> [w EXCEPT !.widths = ws],
            err |-> RowError(Len(cols), Len(ws), n)]
      ELSE [w |-> [w EXCEPT !.widths = [i \in 1..Len(ws) |->
                                          IF strWidth(cols[i]) > ws[i]
                                          THEN strWidth(cols[i]) ELSE ws[i]],
                            !.rows = Append(w.rows, cols)],
            err |-> Nil]

addLine_stopAfterError(w, line, n) ==
  LET parts == Split(line, TAB)
      cols == [i \in 1..Len(parts) |-> TrimSpace(parts[i])]
      ws == IF w.widths = <<>> THEN [i \in 1..Len(cols) |-> 0] ELSE w.widths
  IN  IF Len(cols) # Len(ws) \/ w.err # Nil
      THEN [w |-> [w EXCEPT !.widths = ws],
            err |-> RowError(Len(ws), Len(cols), n)]
      ELSE [w |-> [w EXCEPT !.widths = [i \in 1..Len(ws) |->
                                          IF strWidth(cols[i]) > ws[i]
                                          THEN strWidth(cols[i]) ELSE ws[i]],
                            !.rows = Append(w.rows, cols)],
            err |-> Nil]

addLine_resize(w, line, n) ==
  LET parts == Split(line, TAB)
      cols == [i \in 1..Len(parts) |-> TrimSpace(parts[i])]
      ws == IF w.widths = <<>> THEN [i \in 1..Len(cols) |-> 0] ELSE w.widths
  IN  IF Len(cols) # Len(ws)
      THEN [w |-> [w EXCEPT !.widths = [i \in 1..Len(cols) |-> 0]],
            err |-> RowError(Len(ws), Len(cols), n)]
      ELSE [w |-> [w EXCEPT !.widths = [i \in 1..Len(ws) |->
                                          IF strWidth(cols[i]) > ws[i]
                                          THEN strWidth(cols[i]) ELSE ws[i]],
                            !.rows = Append(w.rows, cols)],
            err |-> Nil]

addLine_widenFirst(w, line, n) ==
  LET parts == Split(line, TAB)
      cols == [i \in 1..Len(parts) |-> TrimSpace(parts[i])]
      ws == IF w.widths = <<>> THEN [i \in 1..Len(cols) |-> 0] ELSE w.widths
      wide == [i \in 1..Len(ws) |->
                 IF i <= Len(cols) /\ strWidth(cols[i]) > ws[i]
                 THEN strWidth(cols[i]) ELSE ws[i]]
  IN  IF Len(cols) # Len(ws)
      THEN [w |-> [w EXCEPT !.widths = wide],
            err |-> RowError(Len(ws), Len(cols), n)]
      ELSE [w |-> [w EXCEPT !.widths = wide, !.rows = Append(w.rows, cols)],
            err |-> Nil]

addLine_rejectEmpty(w, line, n) ==
  LET parts == Split(line, TAB)
      cols == [i \in 1..Len(parts) |-> TrimSpace(parts[i])]
      ws == IF w.widths = <<>> THEN [i \in 1..Len(cols) |-> 0] ELSE w.widths
  IN  IF Len(cols) # Len(ws) \/ line = <<>>
      THEN [w |-> [w EXCEPT !.widths = ws],
            err |-> RowError(Len(ws), Len(cols), n)]
      ELSE [w |-> [w EXCEPT !.widths = [i \in 1..Len(ws) |->
                                          IF strWidth(cols[i]) > ws[i]
                                          THEN strWidth(cols[i]) ELSE ws[i]],
                            !.rows = Append(w.rows, cols)],
            err |-> Nil]

\* Writer.addLine: the Writer after the call, and the error returned.
addLine(w, line, n) ==
  LET parts == Split(line, TAB)
      cols == [i \in 1..Len(parts) |-> TrimSpace(parts[i])]
      ws == IF w.widths = <<>> THEN [i \in 1..Len(cols) |-> 0] ELSE w.widths
  IN  IF Len(cols) # Len(ws)
      THEN [w |-> [w EXCEPT !.widths = ws],
            err |-> RowError(Len(ws), Len(cols), n)]
      ELSE [w |-> [w EXCEPT !.widths = [i \in 1..Len(ws) |->
                                          IF strWidth(cols[i]) > ws[i]
                                          THEN strWidth(cols[i]) ELSE ws[i]],
                            !.rows = Append(w.rows, cols)],
            err |-> Nil]

WriteStep_lastErr(w, i) ==
  LET raw == SubSeq(w.buf, 1, i - 1)
      line == IF Len(raw) > 0 /\ raw[Len(raw)] = CR
              THEN SubSeq(raw, 1, Len(raw) - 1) ELSE raw
      n == w.lineNum + 1
      r == addLine([w EXCEPT !.lineNum = n], line, n)
  IN  [r.w EXCEPT !.err = IF r.err # Nil THEN r.err ELSE w.err,
                  !.buf = SubSeq(w.buf, i + 1, Len(w.buf))]

\* One turn of the loop of Writer.Write: the line that ends at buf[i].
WriteStep(w, i) ==
  LET raw == SubSeq(w.buf, 1, i - 1)
      line == IF Len(raw) > 0 /\ raw[Len(raw)] = CR
              THEN SubSeq(raw, 1, Len(raw) - 1) ELSE raw
      n == w.lineNum + 1
      r == addLine([w EXCEPT !.lineNum = n], line, n)
  IN  [r.w EXCEPT !.err = IF r.err # Nil /\ w.err = Nil THEN r.err ELSE w.err,
                  !.buf = SubSeq(w.buf, i + 1, Len(w.buf))]

\* What Writer.Write returns: (len(p), nil).
WriteRet(p) == [n |-> Len(p), err |-> Nil]

RECURSIVE WriteLoop_eager(_)
WriteLoop_eager(w) ==
  LET i == IndexByte(w.buf, NL)
  IN  IF i # 0 THEN WriteLoop_eager(WriteStep(w, i))
      ELSE IF w.buf = <<>> THEN w
      ELSE WriteStep([w EXCEPT !.buf = w.buf \o <<NL>>], Len(w.buf) + 1)

RECURSIVE WriteLoop(_)
\* The loop of Writer.Write, on the Writer with p already appended to buf.
WriteLoop(w) ==
  LET i == IndexByte(w.buf, NL)
  IN  IF i = 0 THEN w ELSE WriteLoop(WriteStep(w, i))

reset_keepWidths(w) ==
  [w EXCEPT !.rows = <<>>, !.err = Nil, !.lineNum = 0]

reset_dropTail(w) ==
  [w EXCEPT !.rows = <<>>, !.widths = <<>>, !.err = Nil, !.lineNum = 0, !.buf = <<>>]

\* Writer.reset
reset(w) ==
  [w EXCEPT !.rows = <<>>, !.widths = <<>>, !.err = Nil, !.lineNum = 0]

\* The padding formatRow writes after a field of a column ws[i] cells wide.
Pad(ws, i, col) ==
  IF ws[i] - strWidth(col) > 0 THEN Spaces(ws[i] - strWidth(col)) ELSE <<>>

RECURSIVE formatCols(_, _, _, _)
\* The loop of formatRow, from column i on.
formatCols(row, ws, s, i) ==
  IF i > Len(row) THEN <<>>
  ELSE (IF i # 1 THEN s ELSE <<>>)
         \o row[i]
         \o (IF i < Len(ws) THEN Pad(ws, i, row[i]) ELSE <<>>)
         \o formatCols(row, ws, s, i + 1)

formatRow_padLast(row, ws, p, s, sf) ==
  p \o formatCols(row, ws \o <<0>>, s, 1) \o sf

formatRow_spacedSep(row, ws, p, s, sf) ==
  p \o formatCols(row, ws, IF s = <<>> THEN <<SP>> ELSE <<SP>> \o s \o <<SP>>, 1)
    \o (IF sf # <<>> THEN Pad(ws, Len(ws), row[Len(row)]) \o sf ELSE <<>>)

\* formatRow
formatRow(row, ws, p, s, sf) ==
  p \o formatCols(row, ws, s, 1)
    \o (IF sf # <<>> THEN Pad(ws, Len(ws), row[Len(row)]) \o sf ELSE <<>>)

\* What Flush keeps in Writer.err when the sink rejects a write.
WriteFailed_override(e) == SinkError

WriteFailed(e) == IF e = Nil THEN SinkError ELSE e

Rendered_noBreak(w, fmt, failAt) ==
  [i \in 1..Len(w.rows) |->
     formatRow(w.rows[i], w.widths, fmt[1], fmt[2], fmt[3]) \o <<NL>>]

\* What the render loop of Writer.Flush writes when the sink rejects write
\* number failAt (0: none): the loop breaks at the rejected write.
Rendered(w, fmt, failAt) ==
  [i \in 1..(IF failAt = 0 THEN Len(w.rows) ELSE failAt - 1) |->
     formatRow(w.rows[i], w.widths, fmt[1], fmt[2], fmt[3]) \o <<NL>>]

\* Writer.Flush: the Writer after the call, what was written, the result.
FlushBody(w, fmt, failAt) ==
  IF Len(w.rows) = 0
  THEN [w |-> reset(w), out |-> <<>>, ret |-> w.err]
  ELSE LET e == IF failAt # 0 THEN WriteFailed(w.err) ELSE w.err
       IN  [w |-> reset([w EXCEPT !.err = e]),
            out |-> Rendered(w, fmt, failAt),
            ret |-> e]

---------------------------------------------------------------------------
(* The input stream: lines of InputLines, cut into chunks anywhere. *)

IsPrefix(s, t) == Len(s) <= Len(t) /\ SubSeq(t, 1, Len(s)) = s

RECURSIVE LinesOf(_)
\* The complete lines of a byte sequence.
LinesOf(s) ==
  LET i == IndexByte(s, NL)
  IN  IF i = 0 THEN <<>>
      ELSE <<SubSeq(s, 1, i - 1)>> \o LinesOf(SubSeq(s, i + 1, Len(s)))

RECURSIVE TailOf(_)
\* The bytes after the last newline.
TailOf(s) ==
  LET i == IndexByte(s, NL)
  IN  IF i = 0 THEN s ELSE TailOf(SubSeq(s, i + 1, Len(s)))

InStream(s) ==
  LET ls == LinesOf(s)
      t == TailOf(s)
  IN  /\ \A i \in 1..Len(ls) : ls[i] \in InputLines
      /\ \E l \in InputLines : IsPrefix(t, l)

\* Some column of the rows is two cells wide or wider.
HasWide(ws) == \E i \in 1..Len(ws) : ws[i] >= 2

---------------------------------------------------------------------------
(* Operations. *)

\* New
Init ==
  /\ buf = <<>>
  /\ pre = <<>>
  /\ sep = <<>>
  /\ suff = <<>>
  /\ widths = <<>>
  /\ rows = <<>>
  /\ err = Nil
  /\ lineNum = 0
  /\ out = <<>>
  /\ call = [op |-> "New"]
  /\ ret = Nil
  /\ hist = <<>>
  /\ prev = NoPrev
  /\ flushRun = 0
  /\ sawWide = FALSE
  /\ stream = <<>>

SetFormat_dropRows(f) ==
  /\ pre' = f[1]
  /\ sep' = f[2]
  /\ suff' = f[3]
  /\ rows' = <<>>
  /\ out' = <<>>
  /\ call' = [op |-> "SetFormat"]
  /\ ret' = Nil
  /\ prev' = NoPrev
  /\ flushRun' = 0
  /\ sawWide' = (sawWide \/ (prev.taken /\ HasWide(prev.self.widths)))
  /\ UNCHANGED <<buf, widths, err, lineNum, hist, stream>>

\* Writer.SetFormat
SetFormat(f) ==
  /\ pre' = f[1]
  /\ sep' = f[2]
  /\ suff' = f[3]
  /\ out' = <<>>
  /\ call' = [op |-> "SetFormat"]
  /\ ret' = Nil
  /\ prev' = NoPrev
  /\ flushRun' = 0
  /\ sawWide' = (sawWide \/ (prev.taken /\ HasWide(prev.self.widths)))
  /\ UNCHANGED <<buf, widths, rows, err, lineNum, hist, stream>>

\* Writer.Write
Write(p) ==
  /\ InStream(buf \o p)
  /\ lineNum + Len(LinesOf(buf \o p)) <= MaxLines
  /\ LET w == WriteLoop([Self EXCEPT !.buf = buf \o p])
     IN  /\ buf' = w.buf
         /\ widths' = w.widths
         /\ rows' = w.rows
         /\ err' = w.err
         /\ lineNum' = w.lineNum
  /\ out' = <<>>
  /\ call' = [op |-> "Write", n |-> Len(p)]
  /\ ret' = WriteRet(p)
  /\ hist' = hist \o LinesOf(buf \o p)
  /\ stream' = stream \o p
  /\ prev' = NoPrev
  /\ flushRun' = 0
  /\ sawWide' = (sawWide \/ (prev.taken /\ HasWide(prev.self.widths)))
  /\ UNCHANGED <<pre, sep, suff>>

\* Writer.Flush; the sink rejects write number failAt (0: none)
Flush(failAt) ==
  /\ LET f == FlushBody(Self, <<pre, sep, suff>>, failAt)
     IN  /\ buf' = f.w.buf
         /\ widths' = f.w.widths
         /\ rows' = f.w.rows
         /\ err' = f.w.err
         /\ lineNum' = f.w.lineNum
         /\ out' = f.out
         /\ ret' = f.ret
  /\ call' = [op |-> "Flush", failAt |-> failAt]
  /\ hist' = <<>>
  /\ stream' = TailOf(stream)
  /\ prev' = [taken |-> TRUE, lines |-> hist, self |-> Self, fmt |-> <<pre, sep, suff>>]
  /\ flushRun' = IF flushRun < 2 THEN flushRun + 1 ELSE 2
  /\ sawWide' = (sawWide \/ (prev.taken /\ HasWide(prev.self.widths)))
  /\ UNCHANGED <<pre, sep, suff>>

Next ==
  \/ \E f \in Formats : SetFormat(f) /\ UNCHANGED <<oneShotVars, readerVars, pipeVars, bufferVars>>
  \/ \E p \in Chunks : Write(p) /\ UNCHANGED <<oneShotVars, readerVars, pipeVars, bufferVars>>
  \/ \E k \in 0..Len(rows) : Flush(k) /\ UNCHANGED <<oneShotVars, readerVars, pipeVars, bufferVars>>

---------------------------------------------------------------------------
(* The one-shot operations. *)

\* The longest slice of lines handed to a one-shot operation.
MaxSlice == 3

\* The lines the one-shot operations are given: two fields, two fields with
\* an escape sequence and a CR, two fields the first three cells wide and
\* the second empty, one field.
OneShotLines ==
  {<<"a", TAB, WIDE>>, <<ESC, "a", TAB, "a", CR>>, <<WIDE, "a", TAB>>,
   <<"a", SP, "a">>}

Slices == UNION {[1..n -> OneShotLines] : n \in 0..MaxSlice}

\* The error a failing reader returns.
ReadError == [kind |-> "ReadError"]

\* bufio.ScanLines drops the CR that ends a line.
dropCR(s) ==
  IF Len(s) > 0 /\ s[Len(s)] = CR THEN SubSeq(s, 1, Len(s) - 1) ELSE s

RECURSIVE ScanLines(_)
\* The texts bufio.Scanner returns for a reader's content: one per line, the
\* terminator removed, a last line without newline included.
ScanLines(s) ==
  LET i == IndexByte(s, NL)
  IN  IF i = 0 THEN (IF s = <<>> THEN <<>> ELSE <<dropCR(s)>>)
      ELSE <<dropCR(SubSeq(s, 1, i - 1))>> \o ScanLines(SubSeq(s, i + 1, Len(s)))

\* The fields of a line: split at the tabs, each trimmed.
Cols(line) ==
  LET parts == Split(line, TAB)
  IN  [j \in 1..Len(parts) |-> TrimSpace(parts[j])]

\* widths raised to the fields of cols.
Widen(ws, cols) ==
  [j \in 1..Len(ws) |-> IF strWidth(cols[j]) > ws[j] THEN strWidth(cols[j]) ELSE ws[j]]

NoRows == [widths |-> <<>>, rows |-> <<>>, rowIndices |-> <<>>, result |-> <<>>]

parseStep_firstOnly(st, ls, i) ==
  LET cols == Cols(ls[i])
  IN  IF st.widths = <<>>
      THEN [st EXCEPT !.widths = [j \in 1..Len(cols) |-> strWidth(cols[j])],
                      !.rows = Append(@, cols),
                      !.rowIndices = Append(@, i)]
      ELSE IF Len(cols) # Len(st.widths) THEN st
      ELSE [st EXCEPT !.rows = Append(@, cols),
                      !.rowIndices = Append(@, i)]

\* One turn of the first loop of FormatLines: line i of ls.
parseStep(st, ls, i) ==
  LET cols == Cols(ls[i])
  IN  IF st.widths = <<>>
      THEN [st EXCEPT !.widths = [j \in 1..Len(cols) |-> strWidth(cols[j])],
                      !.rows = Append(@, cols),
                      !.rowIndices = Append(@, i)]
      ELSE IF Len(cols) # Len(st.widths) THEN st
      ELSE [st EXCEPT !.widths = Widen(@, cols),
                      !.rows = Append(@, cols),
                      !.rowIndices = Append(@, i)]

RECURSIVE parseLoop(_, _, _)
parseLoop(st, ls, i) ==
  IF i > Len(ls) THEN st ELSE parseLoop(parseStep(st, ls, i), ls, i + 1)

RECURSIVE applyRows_front(_, _, _)
applyRows_front(ls, st, i) ==
  IF i > Len(st.rows) THEN ls
  ELSE applyRows_front(
         [ls EXCEPT ![i] = formatRow(st.rows[i], st.widths, <<>>, <<SP>>, <<>>)],
         st, i + 1)

RECURSIVE applyRows(_, _, _)
\* The last loop of FormatLines and of FormatReader, from row i on: each row
\* is rendered into the entry its index names.
applyRows(ls, st, i) ==
  IF i > Len(st.rows) THEN ls
  ELSE applyRows(
         IF i <= Len(st.rowIndices)
         THEN [ls EXCEPT ![st.rowIndices[i]] =
                 formatRow(st.rows[i], st.widths, <<>>, <<SP>>, <<>>)]
         ELSE ls,
         st, i + 1)

\* FormatLines: the slice after the call.
FormatLines(ls) ==
  IF Len(ls) = 0 THEN ls
  ELSE LET st == parseLoop(NoRows, ls, 1)
       IN  IF Len(st.rows) = 0 THEN ls ELSE applyRows(ls, st, 1)

readStep_dropMismatch(st, line) ==
  LET cols == Cols(line)
  IN  IF st.widths = <<>>
      THEN [st EXCEPT !.widths = [j \in 1..Len(cols) |-> strWidth(cols[j])],
                      !.rows = Append(@, cols),
                      !.rowIndices = Append(@, Len(st.result) + 1),
                      !.result = Append(@, <<>>)]
      ELSE IF Len(cols) # Len(st.widths) THEN st
      ELSE [st EXCEPT !.widths = Widen(@, cols),
                      !.rows = Append(@, cols),
                      !.rowIndices = Append(@, Len(st.result) + 1),
                      !.result = Append(@, <<>>)]

\* One turn of the scan loop of FormatReader: the scanned text line.
readStep(st, line) ==
  LET cols == Cols(line)
  IN  IF st.widths = <<>>
      THEN [st EXCEPT !.widths = [j \in 1..Len(cols) |-> strWidth(cols[j])],
                      !.rows = Append(@, cols),
                      !.rowIndices = Append(@, Len(st.result) + 1),
                      !.result = Append(@, <<>>)]
      ELSE IF Len(cols) # Len(st.widths)
      THEN [st EXCEPT !.result = Append(@, line)]
      ELSE [st EXCEPT !.widths = Widen(@, cols),
                      !.rows = Append(@, cols),
                      !.rowIndices = Append(@, Len(st.result) + 1),
                      !.result = Append(@, <<>>)]

RECURSIVE readLoop(_, _, _)
readLoop(st, ls, i) ==
  IF i > Len(ls) THEN st ELSE readLoop(readStep(st, ls[i]), ls, i + 1)

\* FormatReader on a reader holding the bytes s; fail: the reader fails.
FormatReader(s, fail) ==
  LET st == readLoop(NoRows, ScanLines(s), 1)
  IN  IF fail THEN [lines |-> <<>>, err |-> ReadError]
      ELSE [lines |-> applyRows(st.result, st, 1), err |-> Nil]

\* formatRow of package table/table: every column is padded, the last too.
table_formatRow(row, ws, p, s, sf) ==
  p \o formatCols(row, ws \o <<0>>, s, 1) \o sf

\* FormatLines of package table/table: the slice after the call. Its first
\* loop is parseLoop without the row indices.
table_FormatLines(ls) ==
  IF Len(ls) = 0 THEN ls
  ELSE LET st == parseLoop(NoRows, ls, 1)
           formatted == [i \in 1..Len(st.rows) |->
                           table_formatRow(st.rows[i], st.widths, <<>>, <<SP>>, <<>>)]
       IN  IF Len(st.rows) = 0 THEN ls
           ELSE [i \in 1..Len(ls) |-> IF i <= Len(formatted) THEN formatted[i] ELSE ls[i]]

NoFormatter == [widths |-> <<>>, table |-> <<>>, separator |-> <<>>]

\* formatter.addLine: the formatter after the call (FormatLines drops the
\* error).
formatter_addLine(f, line) ==
  LET cols == Cols(line)
      ws == IF f.widths = <<>> THEN [j \in 1..Len(cols) |-> strWidth(cols[j])]
            ELSE f.widths
  IN  IF Len(cols) # Len(ws) THEN [f EXCEPT !.widths = ws]
      ELSE [f EXCEPT !.widths = Widen(ws, cols), !.table = Append(@, cols)]

RECURSIVE formatter_cols(_, _, _, _)
\* The loop of formatter.formatRow, from column i on.
formatter_cols(f, row, s, i) ==
  IF i > Len(row) THEN <<>>
  ELSE (IF i # 1 THEN s ELSE <<>>)
         \o row[i]
         \o (IF i <= Len(f.widths) THEN Spaces(f.widths[i] - strWidth(row[i])) ELSE <<>>)
         \o formatter_cols(f, row, s, i + 1)

\* formatter.formatRow
formatter_formatRow(f, row) ==
  formatter_cols(f, row,
                 IF f.separator # <<>> THEN <<SP>> \o f.separator \o <<SP>> ELSE <<SP>>,
                 1)

\* formatter.lines
formatter_lines(f) == [i \in 1..Len(f.table) |-> formatter_formatRow(f, f.table[i])]

RECURSIVE formatter_addLines(_, _, _)
formatter_addLines(f, ls, i) ==
  IF i > Len(ls) THEN f ELSE formatter_addLines(formatter_addLine(f, ls[i]), ls, i + 1)

\* FormatLines of the formatter-based package: the slice after the call.
formatter_FormatLines(ls) ==
  IF Len(ls) = 0 THEN ls
  ELSE LET formatted == formatter_lines(formatter_addLines(NoFormatter, ls, 1))
       IN  [i \in 1..Len(ls) |-> IF i <= Len(formatted) THEN formatted[i] ELSE ls[i]]

RECURSIVE Content(_, _)
\* The bytes of a reader that holds the lines ls; final: the last line ends
\* with a newline.
Content(ls, final) ==
  IF Len(ls) = 0 THEN <<>>
  ELSE IF Len(ls) = 1 THEN ls[1] \o (IF final THEN <<NL>> ELSE <<>>)
  ELSE ls[1] \o <<NL>> \o Content(Tail(ls), final)

\* What a Writer set to SetFormat("", " ", "") writes on Flush after one
\* Write of the lines ls, each ended by a newline.
WriterOutput(ls) ==
  LET w == WriteLoop([buf |-> Content(ls, TRUE), widths |-> <<>>, rows |-> <<>>,
                      err |-> Nil, lineNum |-> 0])
  IN  FlushBody(w, << <<>>, <<SP>>, <<>> >>, 0).out

\* No one-shot operation has been called.
OneShotIdle ==
  /\ input = <<>>
  /\ result = [op |-> "none"]

OneShotInit ==
  /\ input \in Slices
  /\ result = [op |-> "none"]

CallFormatLines ==
  /\ result' = [op |-> "FormatLines", lines |-> FormatLines(input)]
  /\ UNCHANGED <<input, vars, readerVars, pipeVars, bufferVars>>

CallFormatReader(final, fail) ==
  /\ LET r == FormatReader(Content(input, final), fail)
     IN  result' = [op |-> "FormatReader", final |-> final, fail |-> fail,
                    lines |-> r.lines, err |-> r.err]
  /\ UNCHANGED <<input, vars, readerVars, pipeVars, bufferVars>>

CallTableFormatLines ==
  /\ result' = [op |-> "table.FormatLines", lines |-> table_FormatLines(input)]
  /\ UNCHANGED <<input, vars, readerVars, pipeVars, bufferVars>>

CallFormatterFormatLines ==
  /\ result' = [op |-> "formatter.FormatLines", lines |-> formatter_FormatLines(input)]
  /\ UNCHANGED <<input, vars, readerVars, pipeVars, bufferVars>>

OneShotNext ==
  \/ CallFormatLines
  \/ \E final \in BOOLEAN, fail \in BOOLEAN : CallFormatReader(final, fail)
  \/ CallTableFormatLines
  \/ CallFormatterFormatLines

---------------------------------------------------------------------------
(* The scanner-based Reader. *)

\* The most lines a Reader scans.
MaxScan == 4

\* The texts the Reader's scanner returns: two fields, two wider fields the
\* second with an escape sequence, one field.
ReaderLines == {<<"a", TAB, "a">>, <<WIDE, "a", TAB, ESC, "a">>, <<"a">>}

Separators == {<<>>, <<"|">>}

\* The fields parseLine, Flush and Reset work on.
ReaderSelf == [widths |-> rWidths, table |-> rTable, errs |-> rErrs, line |-> rLine]

\* Reader.parseLine
parseLine(r, line) ==
  LET cols == Cols(line)
      ws == IF r.widths = <<>> THEN [j \in 1..Len(cols) |-> strWidth(cols[j])]
            ELSE r.widths
  IN  IF Len(cols) # Len(ws)
      THEN [r EXCEPT !.widths = ws,
                     !.errs = Append(@, RowError(Len(ws), Len(cols), r.line))]
      ELSE [r EXCEPT !.widths = Widen(ws, cols), !.table = Append(@, cols)]

\* Rendering row in Reader.Flush panics: r.widths has no entry for a column
\* (index out of range) or a narrower one (negative Repeat count).
Panics(r, row) ==
  \E i \in 1..Len(row) : i > Len(r.widths) \/ r.widths[i] < strWidth(row[i])

\* The first row of the table whose rendering panics, 0 when none does.
FirstPanic(r) ==
  LET bad == {i \in 1..Len(r.table) : Panics(r, r.table[i])}
  IN  IF bad = {} THEN 0 ELSE CHOOSE i \in bad : \A k \in bad : i <= k

RECURSIVE Reader_cols(_, _, _, _)
\* The inner loop of Reader.Flush, from column i on.
Reader_cols(r, row, s, i) ==
  IF i > Len(row) THEN <<>>
  ELSE (IF i # 1 THEN s ELSE <<>>)
         \o row[i]
         \o Spaces(r.widths[i] - strWidth(row[i]))
         \o Reader_cols(r, row, s, i + 1)

\* Reader.Flush with Separator S: the Reader after the call, what was
\* written, and whether the call panicked.
Reader_FlushBody(r, S) ==
  LET s == IF S # <<>> THEN <<SP>> \o S \o <<SP>> ELSE <<SP>>
      k == FirstPanic(r)
  IN  [r |-> IF k = 0 THEN [r EXCEPT !.table = <<>>] ELSE r,
       out |-> [i \in 1..(IF k = 0 THEN Len(r.table) ELSE k - 1) |->
                  Reader_cols(r, r.table[i], s, 1) \o <<NL>>],
       panic |-> k # 0]

\* A call of Reader.Flush has panicked.
Panicked == rCall.op = "Flush" /\ rCall.panic

\* No Reader is in use.
ReaderIdle ==
  /\ rSeparator = <<>>
  /\ rWidths = <<>>
  /\ rTable = <<>>
  /\ rErrs = <<>>
  /\ rLine = 0
  /\ rEOF = FALSE
  /\ rOut = <<>>
  /\ rCall = [op |-> "NewReader"]
  /\ rRet = <<>>
  /\ rBatch = <<>>
  /\ rPrev = NoPrev

\* NewReader, and the Separator the caller sets on it.
NewReader ==
  /\ rSeparator \in Separators
  /\ rWidths = <<>>
  /\ rTable = <<>>
  /\ rErrs = <<>>
  /\ rLine = 0
  /\ rEOF = FALSE
  /\ rOut = <<>>
  /\ rCall = [op |-> "NewReader"]
  /\ rRet = <<>>
  /\ rBatch = <<>>
  /\ rPrev = NoPrev

\* Reader.Scan when the scanner returns the text l
Reader_Scan(l) ==
  /\ ~Panicked
  /\ ~rEOF
  /\ rLine < MaxScan
  /\ LET r == parseLine([ReaderSelf EXCEPT !.line = rLine + 1], l)
     IN  /\ rWidths' = r.widths
         /\ rTable' = r.table
         /\ rErrs' = r.errs
         /\ rLine' = r.line
  /\ rOut' = <<>>
  /\ rCall' = [op |-> "Scan"]
  /\ rRet' = TRUE
  /\ rBatch' = Append(rBatch, l)
  /\ UNCHANGED <<rSeparator, rEOF, rPrev, vars, oneShotVars, pipeVars, bufferVars>>

\* Reader.Scan when the scanner has no more lines
Reader_ScanEnd ==
  /\ ~Panicked
  /\ rEOF' = TRUE
  /\ rOut' = <<>>
  /\ rCall' = [op |-> "Scan"]
  /\ rRet' = FALSE
  /\ UNCHANGED <<rSeparator, rWidths, rTable, rErrs, rLine, rBatch, rPrev,
                 vars, oneShotVars, pipeVars, bufferVars>>

\* Reader.Flush
Reader_Flush ==
  /\ ~Panicked
  /\ LET f == Reader_FlushBody(ReaderSelf, rSeparator)
     IN  /\ rWidths' = f.r.widths
         /\ rTable' = f.r.table
         /\ rErrs' = f.r.errs
         /\ rLine' = f.r.line
         /\ rOut' = f.out
         /\ rCall' = [op |-> "Flush", panic |-> f.panic]
  /\ rRet' = <<>>
  /\ rBatch' = <<>>
  /\ rPrev' = [taken |-> TRUE, lines |-> rBatch, self |-> ReaderSelf]
  /\ UNCHANGED <<rSeparator, rEOF, vars, oneShotVars, pipeVars, bufferVars>>

\* Reader.Reset: returns the joined errors (<<>> is nil)
Reader_Reset ==
  /\ ~Panicked
  /\ rWidths' = <<>>
  /\ rErrs' = <<>>
  /\ rOut' = <<>>
  /\ rCall' = [op |-> "Reset"]
  /\ rRet' = rErrs
  /\ UNCHANGED <<rSeparator, rTable, rLine, rEOF, rBatch, rPrev,
                 vars, oneShotVars, pipeVars, bufferVars>>

ReaderNext ==
  \/ \E l \in ReaderLines : Reader_Scan(l)
  \/ Reader_ScanEnd
  \/ Reader_Flush
  \/ Reader_Reset

---------------------------------------------------------------------------
(* The pipe-backed Writer and the StringWriter. *)

\* The most lines written to a pipe-backed Writer.
MaxPipeLines == 2

\* What the caller writes: a line with its newline, a line without one, a
\* newline alone, and a line followed by a line without newline.
PipeChunks ==
  {l \o <<NL>> : l \in ReaderLines} \cup ReaderLines \cup {<<NL>>}
    \cup {l1 \o <<NL>> \o l2 : l1 \in ReaderLines, l2 \in ReaderLines}

\* s is the start of a text of at most MaxPipeLines lines of ReaderLines.
InPipeStream(s) ==
  LET ls == LinesOf(s)
      t == TailOf(s)
  IN  /\ \A i \in 1..Len(ls) : ls[i] \in ReaderLines
      /\ t \in ReaderLines \cup {<<>>}
      /\ Len(ls) + (IF t = <<>> THEN 0 ELSE 1) <= MaxPipeLines

\* The error of a Write to a closed pipe.
ErrClosedPipe == [kind |-> "ErrClosedPipe"]

\* The scanner of the consumer can return a line: a newline is buffered, or
\* the pipe is closed and drained and bytes are left.
AtEOF == pwClosed /\ pwBuf = <<>>

\* No pipe-backed Writer is in use.
PipeIdle ==
  /\ pwBuf = <<>>
  /\ pwClosed = FALSE
  /\ scBuf = <<>>
  /\ callerPc = "idle"
  /\ consumerPc = "done"
  /\ done = FALSE
  /\ pRet = [op |-> "none"]
  /\ pWritten = <<>>

\* NewWriter: the pipe is open and the consumer goroutine starts its loop.
NewWriter ==
  /\ pwBuf = <<>>
  /\ pwClosed = FALSE
  /\ scBuf = <<>>
  /\ callerPc = "idle"
  /\ consumerPc = "scan"
  /\ done = FALSE
  /\ pRet = [op |-> "NewWriter"]
  /\ pWritten = <<>>

\* Writer.Write on an open pipe: the caller blocks with p in the pipe.
PipeWrite(p) ==
  /\ callerPc = "idle"
  /\ ~pwClosed
  /\ InPipeStream(pWritten \o p)
  /\ pwBuf' = p
  /\ callerPc' = "write"
  /\ pRet' = [op |-> "Write", n |-> Len(p), err |-> Nil]
  /\ pWritten' = pWritten \o p
  /\ UNCHANGED <<pwClosed, scBuf, consumerPc, done, vars, oneShotVars, readerVars,
                 bufferVars>>

\* Writer.Write returns once the consumer has read all of p.
PipeWriteReturn ==
  /\ callerPc = "write"
  /\ pwBuf = <<>>
  /\ callerPc' = "idle"
  /\ UNCHANGED <<pwBuf, pwClosed, scBuf, consumerPc, done, pRet, pWritten,
                 vars, oneShotVars, readerVars, bufferVars>>

\* Writer.Write on a closed pipe: nothing is written.
PipeWriteClosed(p) ==
  /\ callerPc = "idle"
  /\ pwClosed
  /\ pRet' = [op |-> "Write", n |-> 0, err |-> ErrClosedPipe]
  /\ UNCHANGED <<pwBuf, pwClosed, scBuf, callerPc, consumerPc, done, pWritten,
                 vars, oneShotVars, readerVars, bufferVars>>

\* Writer.Close, called directly or by StringWriter.String: the write end
\* is closed and the caller waits for done.
PipeClose(pc) ==
  /\ callerPc = "idle"
  /\ pwClosed' = TRUE
  /\ callerPc' = pc
  /\ UNCHANGED <<pwBuf, scBuf, consumerPc, done, pRet, pWritten,
                 vars, oneShotVars, readerVars, bufferVars>>

PipeCloseReturn_noWait ==
  /\ callerPc \in {"close", "string"}
  /\ callerPc' = "idle"
  /\ pRet' = IF callerPc = "string" THEN [op |-> "String", s |-> rOut]
             ELSE [op |-> "Close", err |-> Nil]
  /\ UNCHANGED <<pwBuf, pwClosed, scBuf, consumerPc, done, pWritten,
                 vars, oneShotVars, readerVars, bufferVars>>

\* Writer.Close returns when done is closed; String then returns what out
\* holds.
PipeCloseReturn ==
  /\ callerPc \in {"close", "string"}
  /\ done
  /\ callerPc' = "idle"
  /\ pRet' = IF callerPc = "string" THEN [op |-> "String", s |-> rOut]
             ELSE [op |-> "Close", err |-> Nil]
  /\ UNCHANGED <<pwBuf, pwClosed, scBuf, consumerPc, done, pWritten,
                 vars, oneShotVars, readerVars, bufferVars>>

\* The consumer's scanner reads k bytes of the blocked Write.
ConsumerRead(k) ==
  /\ consumerPc = "scan"
  /\ IndexByte(scBuf, NL) = 0
  /\ k <= Len(pwBuf)
  /\ scBuf' = scBuf \o SubSeq(pwBuf, 1, k)
  /\ pwBuf' = SubSeq(pwBuf, k + 1, Len(pwBuf))
  /\ UNCHANGED <<pwClosed, callerPc, consumerPc, done, pRet, pWritten,
                 vars, oneShotVars, readerVars, bufferVars>>

\* r.Scan() returns true in the consumer: the scanner returns the line that
\* ends at the first newline, or at the end of the input the bytes left.
ConsumerScan ==
  /\ consumerPc = "scan"
  /\ IndexByte(scBuf, NL) # 0 \/ (AtEOF /\ scBuf # <<>>)
  /\ LET i == IF IndexByte(scBuf, NL) # 0 THEN IndexByte(scBuf, NL) ELSE Len(scBuf) + 1
         r == parseLine([ReaderSelf EXCEPT !.line = rLine + 1],
                        dropCR(SubSeq(scBuf, 1, i - 1)))
     IN  /\ scBuf' = SubSeq(scBuf, i + 1, Len(scBuf))
         /\ rWidths' = r.widths
         /\ rTable' = r.table
         /\ rErrs' = r.errs
         /\ rLine' = r.line
  /\ UNCHANGED <<rSeparator, rEOF, rOut, rCall, rRet, rBatch, rPrev,
                 pwBuf, pwClosed, callerPc, consumerPc, done, pRet, pWritten,
                 vars, oneShotVars, bufferVars>>

\* r.Scan() returns false in the consumer: the pipe is closed and nothing
\* is left.
ConsumerScanEnd ==
  /\ consumerPc = "scan"
  /\ AtEOF
  /\ scBuf = <<>>
  /\ consumerPc' = "flush"
  /\ rEOF' = TRUE
  /\ UNCHANGED <<rSeparator, rWidths, rTable, rErrs, rLine, rOut, rCall, rRet,
                 rBatch, rPrev,
                 pwBuf, pwClosed, scBuf, callerPc, done, pRet, pWritten,
                 vars, oneShotVars, bufferVars>>

\* r.Flush() in the consumer
ConsumerFlush ==
  /\ consumerPc = "flush"
  /\ LET f == Reader_FlushBody(ReaderSelf, rSeparator)
     IN  /\ rWidths' = f.r.widths
         /\ rTable' = f.r.table
         /\ rErrs' = f.r.errs
         /\ rLine' = f.r.line
         /\ rOut' = f.out
         /\ rCall' = [op |-> "Flush", panic |-> f.panic]
  /\ consumerPc' = "close"
  /\ UNCHANGED <<rSeparator, rEOF, rRet, rBatch, rPrev,
                 pwBuf, pwClosed, scBuf, callerPc, done, pRet, pWritten,
                 vars, oneShotVars, bufferVars>>

\* close(done) in the consumer
ConsumerDone ==
  /\ consumerPc = "close"
  /\ done' = TRUE
  /\ consumerPc' = "done"
  /\ UNCHANGED <<pwBuf, pwClosed, scBuf, callerPc, pRet, pWritten,
                 vars, oneShotVars, readerVars, bufferVars>>

PipeNext ==
  \/ \E p \in PipeChunks : PipeWrite(p)
  \/ PipeWriteReturn
  \/ \E p \in PipeChunks : PipeWriteClosed(p)
  \/ \E pc \in {"close", "string"} : PipeClose(pc)
  \/ PipeCloseReturn
  \/ \E k \in 1..Len(pwBuf) : ConsumerRead(k)
  \/ ConsumerScan
  \/ ConsumerScanEnd
  \/ ConsumerFlush
  \/ ConsumerDone

---------------------------------------------------------------------------
(* The Buffer. *)

\* The most rows a Buffer's formatter accepts, and the largest slice handed
\* to Read.
MaxBufLines == 3

MaxRead == 4

\* The lines written to a Buffer.
BufLines == {<<"a", TAB, "a">>, <<WIDE, TAB, "a">>, <<"a">>}

\* What the caller writes: a line with its newline, the start of a line, the
\* rest of a line.
BufChunks == {l \o <<NL>> : l \in BufLines} \cup {<<"a", TAB>>}

\* The fields Write, Read and flush work on; the separator is left unset.
BufferSelf ==
  [f |-> [widths |-> bWidths, table |-> bTable, separator |-> <<>>],
   buffer |-> bBuffer, readBuffer |-> bReadBuffer, readPos |-> bReadPos]

\* formatter.reset
formatter_reset(f) == [f EXCEPT !.widths = <<>>, !.table = <<>>]

RECURSIVE Buffer_WriteLoop(_)
\* The loop of Buffer.Write, on the Buffer with p already appended.
Buffer_WriteLoop(b) ==
  LET i == IndexByte(b.buffer, NL)
  IN  IF i = 0 THEN b
      ELSE Buffer_WriteLoop(
             [b EXCEPT !.f = formatter_addLine(b.f, dropCR(SubSeq(b.buffer, 1, i - 1))),
                       !.buffer = SubSeq(b.buffer, i + 1, Len(b.buffer))])

\* Buffer.Write: the Buffer after the call.
Buffer_WriteBody(b, p) ==
  Buffer_WriteLoop([b EXCEPT !.readBuffer = <<>>, !.readPos = 0,
                             !.buffer = b.buffer \o p])

\* Buffer.flush
Buffer_flush(b) ==
  IF Len(b.buffer) > 0
  THEN [b EXCEPT !.f = formatter_addLine(b.f, b.buffer), !.buffer = <<>>]
  ELSE b

RECURSIVE JoinLines(_)
\* strings.Join(lines, "\n") + "\n"
JoinLines(ls) ==
  IF Len(ls) = 0 THEN <<NL>>
  ELSE IF Len(ls) = 1 THEN ls[1] \o <<NL>>
  ELSE ls[1] \o <<NL>> \o JoinLines(Tail(ls))

\* The error Read returns at the end of the rendered output.
EOF == [kind |-> "EOF"]

\* Buffer.Read, lines 59-65: the rendered rows become the read buffer and
\* the formatter is reset; fl is the Buffer after flush. empty: there was
\* nothing to render.
Buffer_render(fl, lines) ==
  IF Len(lines) = 0 THEN [b |-> fl, empty |-> TRUE]
  ELSE [b |-> [fl EXCEPT !.readBuffer = JoinLines(lines), !.readPos = 0,
                         !.f = formatter_reset(fl.f)],
        empty |-> FALSE]

\* The formatter's rendering of the Buffer's rows.
Buffer_lines(fl) == formatter_lines(fl.f)

\* The first part of Buffer.Read: the read buffer is filled when it is nil.
Buffer_fill(b) ==
  IF b.readBuffer # <<>> THEN [b |-> b, empty |-> FALSE]
  ELSE Buffer_render(Buffer_flush(b), Buffer_lines(Buffer_flush(b)))

\* The second part of Buffer.Read: up to n bytes of the read buffer are
\* copied out; the read buffer is dropped once it is exhausted.
Buffer_copy(b, n) ==
  LET left == Len(b.readBuffer) - b.readPos
      k == IF n < left THEN n ELSE left
  IN  IF b.readPos >= Len(b.readBuffer)
      THEN [b |-> [b EXCEPT !.readBuffer = <<>>, !.readPos = 0], p |-> <<>>, err |-> EOF]
      ELSE IF b.readPos + k >= Len(b.readBuffer)
      THEN [b |-> [b EXCEPT !.readBuffer = <<>>, !.readPos = 0],
            p |-> SubSeq(b.readBuffer, b.readPos + 1, b.readPos + k), err |-> EOF]
      ELSE [b |-> [b EXCEPT !.readPos = b.readPos + k],
            p |-> SubSeq(b.readBuffer, b.readPos + 1, b.readPos + k), err |-> Nil]

\* Buffer.Read after the fill.
Buffer_readFilled(fill, n) ==
  IF fill.empty THEN [b |-> fill.b, p |-> <<>>, err |-> EOF]
  ELSE Buffer_copy(fill.b, n)

\* Buffer.Read into a slice of n bytes: the Buffer after the call, the bytes
\* copied, the error.
Buffer_ReadBody(b0, n) == Buffer_readFilled(Buffer_fill(b0), n)

\* A zero Buffer.
BufferIdle ==
  /\ bWidths = <<>>
  /\ bTable = <<>>
  /\ bBuffer = <<>>
  /\ bReadBuffer = <<>>
  /\ bReadPos = 0
  /\ bRet = [op |-> "none"]
  /\ bAccepted = <<>>
  /\ bDelivered = <<>>

\* Buffer.Write
Buffer_Write(p) ==
  /\ \A i \in 1..Len(LinesOf(bBuffer \o p)) : LinesOf(bBuffer \o p)[i] \in BufLines
  /\ \E l \in BufLines : IsPrefix(TailOf(bBuffer \o p), l)
  /\ Len(bAccepted) < MaxBufLines
  /\ LET b == Buffer_WriteBody(BufferSelf, p)
     IN  /\ bWidths' = b.f.widths
         /\ bTable' = b.f.table
         /\ bBuffer' = b.buffer
         /\ bReadBuffer' = b.readBuffer
         /\ bReadPos' = b.readPos
         /\ bAccepted' = bAccepted \o SubSeq(b.f.table, Len(bTable) + 1, Len(b.f.table))
  /\ bRet' = [op |-> "Write", n |-> Len(p), err |-> Nil]
  /\ UNCHANGED <<bDelivered, vars, oneShotVars, readerVars, pipeVars>>

\* The variables after a Read that returned r; fl is the Buffer as flush
\* leaves it.
Buffer_ReadDone(r, fl) ==
  /\ bWidths' = r.b.f.widths
  /\ bTable' = r.b.f.table
  /\ bBuffer' = r.b.buffer
  /\ bReadBuffer' = r.b.readBuffer
  /\ bReadPos' = r.b.readPos
  /\ bRet' = [op |-> "Read", n |-> Len(r.p), err |-> r.err]
  /\ bDelivered' = bDelivered \o r.p
  /\ bAccepted' = IF bReadBuffer = <<>>
                  THEN bAccepted \o SubSeq(fl.f.table, Len(bTable) + 1, Len(fl.f.table))
                  ELSE bAccepted

\* Buffer.Read into a slice of n bytes
Buffer_Read(n) ==
  /\ Buffer_ReadDone(Buffer_ReadBody(BufferSelf, n), Buffer_flush(BufferSelf))
  /\ UNCHANGED <<vars, oneShotVars, readerVars, pipeVars>>

BufferNext ==
  \/ \E p \in BufChunks : Buffer_Write(p)
  \/ \E n \in 1..MaxRead : Buffer_Read(n)

---------------------------------------------------------------------------
(* The specifications: one component runs, the others stay as constructed. *)

\* A Writer as New leaves it.
WriterInit == Init /\ OneShotIdle /\ ReaderIdle /\ PipeIdle /\ BufferIdle

Spec == WriterInit /\ [][Next]_allVars

\* A slice of lines, and no call yet.
FormatInit == Init /\ OneShotInit /\ ReaderIdle /\ PipeIdle /\ BufferIdle

SpecOneShot == FormatInit /\ [][OneShotNext]_allVars

\* A Reader as NewReader leaves it.
ReaderInit == Init /\ OneShotIdle /\ NewReader /\ PipeIdle /\ BufferIdle

SpecReader == ReaderInit /\ [][ReaderNext]_allVars

\* A pipe-backed Writer as NewWriter leaves it, its Separator set.
PipeInit == Init /\ OneShotIdle /\ NewReader /\ NewWriter /\ BufferIdle

SpecPipe == PipeInit /\ [][PipeNext]_allVars

\* A zero Buffer.
BufferInit == Init /\ OneShotIdle /\ ReaderIdle /\ PipeIdle /\ BufferIdle

SpecBuffer == BufferInit /\ [][BufferNext]_allVars

---------------------------------------------------------------------------
(* What the properties are stated with: the batch as the caller sees it,   *)
(* computed from the lines written, not from the Writer's fields.          *)

\* The trimmed fields of a line (a trailing carriage return is not part of it).
Fields(line) ==
  LET l == IF Len(line) > 0 /\ line[Len(line)] = CR
           THEN SubSeq(line, 1, Len(line) - 1) ELSE line
      parts == Split(l, TAB)
  IN  [i \in 1..Len(parts) |-> TrimSpace(parts[i])]

\* The column count of a batch: the field count of its first line.
Columns(lines) == Len(Fields(lines[1]))

Matches(lines, i) == Len(Fields(lines[i])) = Columns(lines)

\* The positions of the rejected lines of a batch, and the accepted lines.
RejectedAt(lines) == {i \in 1..Len(lines) : ~Matches(lines, i)}

Accepted(lines) == SelectSeq(lines, LAMBDA l : Len(Fields(l)) = Columns(lines))

\* The widest field of column j among the accepted lines of a batch.
ColumnWidth(lines, j) ==
  LET ws == {strWidth(Fields(lines[i])[j]) : i \in (1..Len(lines)) \ RejectedAt(lines)}
  IN  CHOOSE m \in ws : \A x \in ws : x <= m

BatchWidths(lines) == [j \in 1..Columns(lines) |-> ColumnWidth(lines, j)]

\* A field followed by spaces up to n cells.
PadRight(s, n) == s \o Spaces(n - strWidth(s))

RECURSIVE Join(_, _)
Join(ss, s) ==
  IF Len(ss) = 0 THEN <<>>
  ELSE IF Len(ss) = 1 THEN ss[1]
  ELSE ss[1] \o s \o Join(Tail(ss), s)

\* The aligned line of the fields cols in columns ws cells wide.
Aligned(cols, ws, p, s, sf) ==
  p \o Join([j \in 1..Len(cols) |->
               IF j < Len(cols) \/ sf # <<>> THEN PadRight(cols[j], ws[j]) ELSE cols[j]],
            s)
    \o sf

\* The errors a returned value holds.
Unjoin(e) == IF e = Nil THEN <<>> ELSE <<e>>

\* The Row Error of line i of a batch.
RowErrorOf(lines, i) == RowError(Columns(lines), Len(Fields(lines[i])), i)

RECURSIVE RowErrorsFrom(_, _)
\* The Row Errors of the rejected lines of a batch from line i on, in order.
RowErrorsFrom(lines, i) ==
  IF i > Len(lines) THEN <<>>
  ELSE (IF Matches(lines, i) THEN <<>> ELSE <<RowErrorOf(lines, i)>>)
         \o RowErrorsFrom(lines, i + 1)

FirstRejected(lines) ==
  CHOOSE i \in RejectedAt(lines) : \A j \in RejectedAt(lines) : i <= j

Flushed == call.op = "Flush"

\* The number of writes of the last Flush the sink took.
Taken == IF call.failAt = 0 THEN Len(prev.self.rows) ELSE call.failAt - 1

---------------------------------------------------------------------------
(* Properties. *)

\* C1: the lines a Flush emits are aligned to the per-column maximum width
\* over the lines accepted since the previous Flush only, and Flush leaves
\* the pending rows and the width vector empty.
C1_BatchWidthsIndependent ==
  Flushed =>
    /\ rows = <<>>
    /\ widths = <<>>
    /\ \A i \in 1..Len(out) :
         out[i] = Aligned(Fields(Accepted(prev.lines)[i]), BatchWidths(prev.lines),
                          pre, sep, suff) \o <<NL>>

\* A second batch, narrower than an earlier one, has been flushed with its
\* first column padded to its own width.
C1_Witness ==
  /\ Flushed
  /\ sawWide
  /\ Len(out) >= 2
  /\ BatchWidths(prev.lines)[1] = 1
  /\ \E i \in 1..Len(prev.lines) : strWidth(Fields(prev.lines[i])[1]) = 0

\* C2 as claimed: Flush returns one Row Error per rejected line, in order.
C2_AllRowErrorsReturned ==
  Flushed =>
    /\ RejectedAt(prev.lines) # {} =>
         SelectSeq(Unjoin(ret), LAMBDA e : e.kind = "RowError")
           = RowErrorsFrom(prev.lines, 1)
    /\ (RejectedAt(prev.lines) = {} /\ call.failAt = 0) => ret = Nil

\* C2 (amended): when lines were rejected, Flush returns exactly one Row
\* Error, that of the first rejected line; with no rejected line and no
\* failed write it returns no error.
C2_FirstRowErrorReturned ==
  Flushed =>
    /\ RejectedAt(prev.lines) # {} =>
         Unjoin(ret) = <<RowErrorOf(prev.lines, FirstRejected(prev.lines))>>
    /\ (RejectedAt(prev.lines) = {} /\ call.failAt = 0) => ret = Nil

\* A batch with two rejected lines has been flushed.
C2_Witness ==
  /\ Flushed
  /\ Cardinality(RejectedAt(prev.lines)) >= 2
  /\ ret.kind = "RowError"

\* C3: the Row Error Flush returns carries the column count of the batch's
\* first line (the length of the width vector), the field count of the
\* rejected line, and that line's 1-based position in the batch.
C3_RowErrorFields ==
  (Flushed /\ ret.kind = "RowError") =>
    /\ ret.Line \in RejectedAt(prev.lines)
    /\ ret.Want = Columns(prev.lines)
    /\ ret.Want = Len(prev.self.widths)
    /\ ret.Got = Len(Fields(prev.lines[ret.Line]))

\* A Row Error for the second of three lines, the third of which was
\* accepted: its line number is not a position among the pending rows.
C3_Witness ==
  /\ Flushed
  /\ ret.kind = "RowError"
  /\ ret.Line = 2
  /\ ret.Want # ret.Got
  /\ Len(prev.lines) = 3
  /\ Len(prev.self.rows) = 2

\* C4: a rendered line is the prefix, the fields joined by the separator,
\* every field but the last padded to widths[i] cells, the last one bare
\* when the suffix is empty and padded and followed by the suffix otherwise.
C4_RenderedLine ==
  Flushed =>
    \A i \in 1..Len(out) :
      LET row == prev.self.rows[i]
          ws == prev.self.widths
          n == Len(row)
      IN  /\ \A j \in 1..n : strWidth(row[j]) <= ws[j]
          /\ \A j \in 1..(n - 1) : strWidth(PadRight(row[j], ws[j])) = ws[j]
          /\ suff = <<>> =>
               out[i] = pre \o Join([j \in 1..n |->
                                       IF j < n THEN PadRight(row[j], ws[j]) ELSE row[j]],
                                    sep) \o <<NL>>
          /\ suff # <<>> =>
               out[i] = pre \o Join([j \in 1..n |-> PadRight(row[j], ws[j])], sep)
                            \o suff \o <<NL>>

\* Two-column lines were rendered with an empty suffix, one whose last
\* field is narrower than its column and one whose first field is.
C4_Witness ==
  /\ Flushed
  /\ suff = <<>>
  /\ Len(prev.self.widths) = 2
  /\ \E i \in 1..Len(out) : strWidth(prev.self.rows[i][2]) < prev.self.widths[2]
  /\ \E i \in 1..Len(out) : strWidth(prev.self.rows[i][1]) < prev.self.widths[1]

\* C5: with no failed write, Flush writes one newline-terminated line per
\* accepted line, in ingestion order, the accepted lines being those with
\* the field count of the batch's first line; rejected lines do not stop it.
C5_OneLinePerAcceptedLine ==
  (Flushed /\ call.failAt = 0) =>
    /\ Len(out) = Len(prev.lines) - Cardinality(RejectedAt(prev.lines))
    /\ Len(out) = Len(Accepted(prev.lines))
    /\ \A i \in 1..Len(out) :
         /\ IndexByte(out[i], NL) = Len(out[i])
         /\ out[i] = formatRow(Fields(Accepted(prev.lines)[i]), prev.self.widths,
                               pre, sep, suff) \o <<NL>>

\* A batch with a rejected line between two accepted ones has been flushed.
C5_Witness ==
  /\ Flushed
  /\ call.failAt = 0
  /\ Len(prev.lines) = 3
  /\ RejectedAt(prev.lines) = {2}
  /\ Len(out) = 2
  /\ out[1] # out[2]
  /\ ret.kind = "RowError"

\* The separator the Writer is claimed to put between two fields.
SpacedSep(s) == IF s = <<>> THEN <<SP>> ELSE <<SP>> \o s \o <<SP>>

RECURSIVE FieldEnd(_, _, _, _, _)
\* Where padded field j of a rendered line ends, s being the separator.
FieldEnd(row, ws, p, s, j) ==
  IF j = 0 THEN Len(p)
  ELSE FieldEnd(row, ws, p, s, j - 1)
         + (IF j > 1 THEN Len(s) ELSE 0) + Len(PadRight(row[j], ws[j]))

\* In a rendered line, padded field j is followed by s and then field j + 1.
SeparatedBy(line, row, ws, p, s, j) ==
  LET e == FieldEnd(row, ws, p, s, j)
  IN  /\ SubSeq(line, e + 1, e + Len(s)) = s
      /\ SubSeq(line, e + Len(s) + 1, e + Len(s) + Len(row[j + 1])) = row[j + 1]

\* A rendered line holds nothing but its prefix, fields, padding, separators
\* s, suffix and newline.
NothingElse(line, row, ws, p, s, sf) ==
  LET n == Len(row)
  IN  Len(line) = FieldEnd(row, ws, p, s, n - 1) + (IF n > 1 THEN Len(s) ELSE 0)
                    + (IF sf = <<>> THEN Len(row[n]) ELSE Len(PadRight(row[n], ws[n])))
                    + Len(sf) + 1

C7_WriteFailureStopsAndResets ==
  (Flushed /\ call.failAt >= 1) =>
    /\ Len(out) = call.failAt - 1
    /\ \A i \in 1..Len(out) :
         out[i] = formatRow(prev.self.rows[i], prev.self.widths, pre, sep, suff) \o <<NL>>
    /\ ret # Nil
    /\ rows = <<>>
    /\ widths = <<>>
    /\ err = Nil
    /\ lineNum = 0

\* The sink rejected the second of three writes.
C7_Witness ==
  /\ Flushed
  /\ call.failAt = 2
  /\ Len(prev.self.rows) = 3
  /\ Len(out) = 1

\* C8 as claimed: the value Flush returns holds the write failure whenever
\* a write failed.
C8_SinkErrorReturned ==
  (Flushed /\ call.failAt >= 1) =>
    \E i \in 1..Len(Unjoin(ret)) : Unjoin(ret)[i] = SinkError

\* C8 (amended): when a write failed, Flush returns the write failure if no
\* Row Error was recorded in the batch, and the first Row Error alone, the
\* write failure left out, if one was.
C8_SinkErrorUnlessRowError ==
  (Flushed /\ call.failAt >= 1) =>
    ret = IF RejectedAt(prev.lines) = {}
          THEN SinkError
          ELSE RowErrorOf(prev.lines, FirstRejected(prev.lines))

\* A write failed in a Flush of a batch with a rejected line.
C8_Witness ==
  /\ Flushed
  /\ call.failAt >= 1
  /\ RejectedAt(prev.lines) # {}
  /\ ret.kind = "RowError"

\* C9: Flush with no line ingested since the previous Flush writes nothing,
\* returns no error and leaves the Writer as it was, however often repeated.
C9_EmptyFlushIdempotent ==
  (Flushed /\ prev.lines = <<>>) =>
    /\ out = <<>>
    /\ ret = Nil
    /\ Self = prev.self
    /\ <<pre, sep, suff>> = prev.fmt

\* Flush was called twice in a row, with bytes of an unfinished line pending.
C9_Witness ==
  /\ Flushed
  /\ flushRun = 2
  /\ prev.lines = <<>>
  /\ buf # <<>>

\* The first line of a batch is always accepted: an error is recorded only
\* while rows are pending, so Flush never finds a recorded error and no rows.
ErrorOnlyWithRows ==
  /\ err # Nil => rows # <<>>
  /\ lineNum > 0 => rows # <<>>
  /\ Flushed => (prev.self.rows = <<>> => prev.self.err = Nil)

\* C11: Write returns (len(p), nil) in every state and for every input, and
\* goes on consuming after a rejected line: every complete line written
\* since the last Flush is counted, and every one of them whose field count
\* matches is buffered, those that follow a rejected line included.
C11_WriteNeverFails ==
  call.op = "Write" =>
    /\ ret = [n |-> call.n, err |-> Nil]
    /\ lineNum = Len(hist)
    /\ hist # <<>> =>
         rows = [i \in 1..Len(Accepted(hist)) |-> Fields(Accepted(hist)[i])]

\* A Write has completed a matching third line after a rejected second one.
C11_Witness ==
  /\ call.op = "Write"
  /\ Len(hist) = 3
  /\ RejectedAt(hist) = {2}
  /\ Len(rows) = 2
  /\ err # Nil

\* The Writer a single Write of all of s leaves, from a Writer whose batch
\* is empty.
OneWrite(s) ==
  WriteLoop([buf |-> s, widths |-> <<>>, rows |-> <<>>, err |-> Nil, lineNum |-> 0])

\* C12: the pending rows, the widths, the recorded error, the line count and
\* the retained tail are those a single Write of the whole byte sequence
\* leaves, however the sequence was cut into chunks; the retained tail is the
\* bytes after the last newline and holds no newline.
C12_ChunkingIrrelevant ==
  /\ Self = OneWrite(stream)
  /\ buf = TailOf(stream)
  /\ IndexByte(buf, NL) = 0

\* A single byte was written last, in the middle of a third line, after a
\* line was rejected.
C12_Witness ==
  /\ call.op = "Write"
  /\ call.n = 1
  /\ lineNum = 2
  /\ err # Nil
  /\ buf # <<>>
  /\ Len(stream) > Len(buf) + 2

\* C18: SetFormat changes the prefix, the separator and the suffix and
\* nothing else of the Writer, and a Flush renders the rows with the
\* options in force when it runs.
C18_SetFormatOnlyOptions ==
  [][/\ call'.op = "SetFormat" =>
          /\ <<pre', sep', suff'>> \in Formats
          /\ UNCHANGED <<buf, widths, rows, err, lineNum>>
     /\ call'.op = "Flush" =>
          \A i \in 1..Len(out') :
            out'[i] = Aligned(rows[i], widths, pre, sep, suff) \o <<NL>>]_vars

\* SetFormat has put a prefix in force while rows ingested under other
\* options, a recorded error and a tail are pending.
C18_Witness ==
  /\ call.op = "SetFormat"
  /\ pre # <<>>
  /\ Len(rows) = 2
  /\ err # Nil
  /\ buf # <<>>

\* C19: every pending row has as many fields as the width vector has
\* entries, and the width vector is empty from a Flush to the first line
\* ingested after it and from then to the next Flush has as many entries as
\* that first line has fields.
C19_WidthVectorLength ==
  /\ \A i \in 1..Len(rows) : Len(rows[i]) = Len(widths)
  /\ Len(widths) = (IF hist = <<>> THEN 0 ELSE Columns(hist))

\* A batch of two columns holds two rows and a rejected line of one field.
C19_Witness ==
  /\ Len(widths) = 2
  /\ Len(rows) = 2
  /\ \E i \in RejectedAt(hist) : Len(Fields(hist[i])) = 1

\* C20: while rows are pending, each width is the greatest display width of
\* its column over the pending rows.
C20_WidthsAreColumnMaxima ==
  rows # <<>> =>
    \A j \in 1..Len(widths) :
      /\ \E i \in 1..Len(rows) : strWidth(rows[i][j]) = widths[j]
      /\ \A i \in 1..Len(rows) : strWidth(rows[i][j]) <= widths[j]

\* A rejected line has a first field wider than the first column.
C20_Witness ==
  /\ rows # <<>>
  /\ \E i \in RejectedAt(hist) : strWidth(Fields(hist[i])[1]) > widths[1]

\* C21: the first line ingested after New or after a Flush is accepted
\* whatever its field count, an empty line as one empty field; so a recorded
\* Row Error implies pending rows, and no batch, pending or flushed, is made
\* of rejected lines only.
C21_FirstLineAccepted ==
  /\ hist # <<>> =>
       /\ rows # <<>>
       /\ rows[1] = Fields(hist[1])
       /\ 1 \notin RejectedAt(hist)
  /\ (err # Nil /\ err.kind = "RowError") => rows # <<>>
  /\ (Flushed /\ prev.lines # <<>>) =>
       /\ prev.self.rows # <<>>
       /\ RejectedAt(prev.lines) # 1..Len(prev.lines)

\* A batch began with an empty line, taken as one empty field, and a line
\* of two fields was rejected after it.
C21_Witness ==
  /\ hist # <<>>
  /\ hist[1] = <<>>
  /\ rows = <<<< <<>> >>>>
  /\ err # Nil
  /\ err.Got = 2

\* C22: Flush leaves the bytes after the last newline in place, rendering
\* none of them; the lines of the batch after a Flush are cut from those
\* bytes followed by the bytes written since, so the kept bytes begin the
\* first line a later Write completes, and that line is in the new batch.
C22_FlushKeepsTail ==
  /\ Flushed =>
       /\ buf = prev.self.buf
       /\ stream = buf
       /\ Len(out) <= Len(prev.lines)
  /\ hist = LinesOf(stream)
  /\ hist # <<>> => rows[1] = Fields(LinesOf(stream)[1])

\* A Flush has rendered rows while two or more bytes of an unfinished line
\* were held, and holds them still.
C22_Witness ==
  /\ Flushed
  /\ out # <<>>
  /\ Len(prev.self.buf) >= 2
  /\ buf = prev.self.buf

---------------------------------------------------------------------------
(* Properties of the one-shot operations and of the Reader. *)

\* The text of a line without its end-of-line marker.
TextOf(l) == IF Len(l) > 0 /\ l[Len(l)] = CR THEN SubSeq(l, 1, Len(l) - 1) ELSE l

\* What a one-shot operation of the root package leaves for line i of ls:
\* the aligned line when the field count matches, the text orig otherwise.
Formatted(ls, i, orig) ==
  IF Matches(ls, i)
  THEN Aligned(Fields(ls[i]), BatchWidths(ls), <<>>, <<SP>>, <<>>)
  ELSE orig

\* C13: FormatLines keeps the length of the slice, puts the aligned
\* rendering of every line whose field count equals the first line's at that
\* line's own index, and leaves every other line as it was.
C13_FormatLinesInPlace ==
  result.op = "FormatLines" =>
    /\ Len(result.lines) = Len(input)
    /\ \A i \in 1..Len(input) : result.lines[i] = Formatted(input, i, input[i])

\* A slice whose second line is mismatched and whose third is padded.
C13_Witness ==
  /\ result.op = "FormatLines"
  /\ Len(input) = 3
  /\ RejectedAt(input) = {2}
  /\ result.lines[2] = input[2]
  /\ Len(result.lines[3]) > Len(TextOf(input[3]))

\* C14: FormatReader returns an error exactly when the reader fails, and
\* otherwise one entry per input line, in order: the aligned line when the
\* field count equals the first line's, the line's text otherwise.
C14_FormatReaderPerLine ==
  result.op = "FormatReader" =>
    /\ result.err = (IF result.fail THEN ReadError ELSE Nil)
    /\ ~result.fail =>
         /\ Len(result.lines) = Len(input)
         /\ \A i \in 1..Len(input) :
              result.lines[i] = Formatted(input, i, TextOf(input[i]))

\* A reader whose second line is mismatched and whose last line has no
\* newline has been formatted without error.
C14_Witness ==
  /\ result.op = "FormatReader"
  /\ ~result.fail
  /\ ~result.final
  /\ Len(input) = 3
  /\ RejectedAt(input) = {2}
  /\ result.lines[2] = TextOf(input[2])
  /\ result.lines[3] # TextOf(input[3])

\* The aligned line of package table/table: every column padded.
PaddedAll(cols, ws, s) == Join([j \in 1..Len(cols) |-> PadRight(cols[j], ws[j])], s)

\* C15 as claimed: FormatLines of package table/table, and of the
\* formatter-based package, leaves every mismatched line as it was and puts
\* the rendering of every matching line at that line's own index.
C15_TableFormatLinesInPlace ==
  result.op \in {"table.FormatLines", "formatter.FormatLines"} =>
    /\ Len(result.lines) = Len(input)
    /\ \A i \in 1..Len(input) :
         result.lines[i] = IF Matches(input, i)
                           THEN PaddedAll(Fields(input[i]), BatchWidths(input), <<SP>>)
                           ELSE input[i]

\* The spaces FormatLines added to line i.
PaddingOf(i) ==
  LET f == Fields(input[i])
  IN  Len(result.lines[i]) - (Len(Join(f, <<SP>>)))

\* The lines of the slice whose first fields differ by escape sequences only.
SameButEscapes(i, k) ==
  /\ Matches(input, i)
  /\ Matches(input, k)
  /\ StripAnsi(Fields(input[i])[1]) = StripAnsi(Fields(input[k])[1])

\* C17: two fields that differ only by escape sequences have the same
\* display width, give the same entry of the width vector, and get the same
\* padding in the same column.
C17_EscapesHaveNoWidth ==
  (result.op = "FormatLines" /\ input # <<>> /\ Columns(input) = 2) =>
    \A i \in 1..Len(input), k \in 1..Len(input) :
      SameButEscapes(i, k) =>
        /\ strWidth(Fields(input[i])[1]) = strWidth(Fields(input[k])[1])
        /\ parseLoop(NoRows, <<input[i]>>, 1).widths[1]
             = parseLoop(NoRows, <<input[k]>>, 1).widths[1]
        /\ PaddingOf(i) = PaddingOf(k)

\* A field with an escape sequence and the same field without it have been
\* padded in a column three cells wide.
C17_Witness ==
  /\ result.op = "FormatLines"
  /\ input # <<>>
  /\ Columns(input) = 2
  /\ BatchWidths(input)[1] = 3
  /\ \E i \in 1..Len(input), k \in 1..Len(input) :
       /\ SameButEscapes(i, k)
       /\ Fields(input[i])[1] # Fields(input[k])[1]
       /\ PaddingOf(i) = 2

\* The widest field of column j among the rows that have one.
ColMax(table, j) ==
  LET ws == {strWidth(table[i][j]) : i \in {x \in 1..Len(table) : Len(table[x]) >= j}}
  IN  CHOOSE m \in ws : \A x \in ws : x <= m

\* C16 as claimed: each Flush of the Reader renders its rows padded to the
\* widest columns of the lines scanned since the previous Flush only.
C16_FlushPadsToOwnBatch ==
  (rCall.op = "Flush" /\ ~rCall.panic) =>
    rOut = [i \in 1..Len(rPrev.self.table) |->
              PaddedAll(rPrev.self.table[i],
                        [j \in 1..Len(rPrev.self.table[i]) |-> ColMax(rPrev.self.table, j)],
                        SpacedSep(rSeparator))
                \o <<NL>>]

\* The indices of the lines of the slice that match the first, in order.
MatchingAt(ls) ==
  SelectSeq([i \in 1..Len(ls) |-> i], LAMBDA i : Matches(ls, i))

\* C23: the lines FormatLines and FormatReader put in place of the matching
\* lines are, one for one and in order, the lines a Writer with a single
\* space for separator and no prefix or suffix writes on Flush after the
\* same lines.
C23_OneShotAgreesWithWriter ==
  (result.op = "FormatLines" \/ (result.op = "FormatReader" /\ ~result.fail)) =>
    [k \in 1..Len(MatchingAt(input)) |-> result.lines[MatchingAt(input)[k]] \o <<NL>>]
      = WriterOutput(input)

\* FormatReader has aligned two lines around a mismatched one, in a column
\* wider than the first line's field.
C23_Witness ==
  /\ result.op = "FormatReader"
  /\ ~result.fail
  /\ Len(input) = 3
  /\ RejectedAt(input) = {2}
  /\ Len(WriterOutput(input)) = 2
  /\ BatchWidths(input)[1] > strWidth(Fields(input[1])[1])

---------------------------------------------------------------------------
(* Properties of the pipe-backed Writer. *)

\* The lines written to the pipe so far, a last line without newline
\* included.
WrittenLines ==
  LinesOf(pWritten) \o (IF TailOf(pWritten) = <<>> THEN <<>> ELSE <<TailOf(pWritten)>>)

\* The aligned output of the lines written: one write per line whose field
\* count equals the first line's, every column padded to the widest field.
AlignedOutput ==
  IF WrittenLines = <<>> THEN <<>>
  ELSE LET acc == Accepted(WrittenLines)
       IN  [i \in 1..Len(acc) |->
              PaddedAll(Fields(acc[i]), BatchWidths(WrittenLines), SpacedSep(rSeparator))
                \o <<NL>>]

\* Close, or String, has returned.
CloseReturned == pwClosed /\ callerPc = "idle"

\* C24: once Close has returned, the consumer has scanned every byte written
\* before it, a last line without newline included, has written the aligned
\* rows to out and has finished; what String returned is that complete
\* output.
C24_CloseWaitsForConsumer ==
  CloseReturned =>
    /\ consumerPc = "done"
    /\ pwBuf = <<>>
    /\ scBuf = <<>>
    /\ rLine = Len(WrittenLines)
    /\ rTable = <<>>
    /\ rOut = AlignedOutput
    /\ pRet.op = "String" => pRet.s = AlignedOutput

\* String has returned the rendering of two lines, the second written
\* without a newline and wider in its first column than the first.
C24_Witness ==
  /\ CloseReturned
  /\ pRet.op = "String"
  /\ TailOf(pWritten) # <<>>
  /\ Len(pRet.s) = 2
  /\ BatchWidths(WrittenLines)[1] > strWidth(Fields(WrittenLines[1])[1])

---------------------------------------------------------------------------
(* Properties of the Buffer. *)

RECURSIVE Flat(_)
\* The fields of a row one after the other.
Flat(row) == IF Len(row) = 0 THEN <<>> ELSE row[1] \o Flat(Tail(row))

\* A delivered line without its padding and separators.
Unspaced(l) == SelectSeq(l, LAMBDA c : c # SP)

\* Nothing accepted waits in the formatter or in the read buffer.
AllRead == bReadBuffer = <<>> /\ bTable = <<>>

\* C25 as claimed: the lines Read has delivered are the renderings of the
\* rows the formatter accepted, each once and in the order of ingestion, and
\* once nothing is left to read every accepted row has been delivered whole.
C25_EveryLineDeliveredOnce ==
  LET d == LinesOf(bDelivered)
  IN  /\ Len(d) <= Len(bAccepted)
      /\ \A i \in 1..Len(d) : Unspaced(d[i]) = Flat(bAccepted[i])
      /\ AllRead => (Len(d) = Len(bAccepted) /\ TailOf(bDelivered) = <<>>)

====
